---- MODULE Spec2Model ----
(***************************************************************************)
(* Bond Price vs Yield to Maturity calculator (YTM.py).                    *)
(*                                                                         *)
(* The script is a Streamlit page: every interaction (a widget change or a *)
(* button click) runs the whole script once, top to bottom, against the    *)
(* widget values and st.session_state.  One action of this module is one   *)
(* such run.                                                               *)
(*                                                                         *)
(* Numbers.  The script computes with Python floats.  Here every real is   *)
(* an exact rational <<numerator, denominator>> in lowest terms with a     *)
(* positive denominator, so that equalities and orderings of the formulas  *)
(* are decided exactly; floating-point rounding is not modelled.           *)
(***************************************************************************)
EXTENDS Integers, Sequences, FiniteSets

VARIABLES
    coupon_rate,        \* slider "Coupon Rate (%)", a rational, in percent
    coupon_frequency,   \* selectbox "Coupon Frequency"
    maturity,           \* slider "Maturity (Years)", a rational, in years
    ytm_range,          \* range slider "YTM Range (%)": <<min_ytm, max_ytm>>
    num_points,         \* resolution_points[resolution]
    curves,             \* st.session_state.curves: key -> saved curve
    curve_colors,       \* st.session_state.curve_colors: key -> colour
    yields,             \* the run's swept yields (rates, not percent)
    prices,             \* the run's swept prices
    current_price,      \* calculate_bond_price(current_ytm / 100)
    duration,           \* calculate_duration(current_ytm / 100)
    added               \* history: the keys of the Add runs since the last Reset

vars == <<coupon_rate, coupon_frequency, maturity, ytm_range, num_points,
          curves, curve_colors, yields, prices, current_price, duration, added>>

-----------------------------------------------------------------------------
(* Bounds of the model.  Present values are exact fractions whose           *)
(* denominators grow as (1 + r)^n, and TLC's integers are 32 bits wide, so   *)
(* the maturities are short and the yields have small denominators.          *)

\* Maturities range over 0.5, 1.0, ..., MaxHalfYears / 2 years.
MaxHalfYears == 3

\* The sweep has 2 .. MaxPoints points (the script's resolutions are
\* 100, 250, 500 and 1000 points).
MaxPoints == 3

\* uuid4().hex[:5] is one of NumKeys keys (16^5 in the script).
NumKeys == 2

\* At most MaxAdds Add runs between two Resets.
MaxAdds == 3

-----------------------------------------------------------------------------
(* Exact rational arithmetic standing for Python's float operators. *)

Abs(a) == IF a < 0 THEN -a ELSE a

RECURSIVE Gcd(_, _)
Gcd(a, b) == IF b = 0 THEN a ELSE Gcd(b, a % b)

\* The rational n/d (d # 0) in lowest terms with a positive denominator.
Norm(n, d) ==
    LET g == Gcd(Abs(n), Abs(d))
        s == IF d < 0 THEN -1 ELSE 1
    IN  <<(s * n) \div g, (s * d) \div g>>

R(i) == <<i, 1>>

\* x + y
RAdd(x, y) ==
    LET g == Gcd(x[2], y[2])
        l == (x[2] \div g) * y[2]
    IN  Norm(x[1] * (l \div x[2]) + y[1] * (l \div y[2]), l)

RNeg(x) == <<-x[1], x[2]>>

\* x - y
RSub(x, y) == RAdd(x, RNeg(y))

\* x * y
RMul(x, y) ==
    LET g1 == Gcd(Abs(x[1]), y[2])
        g2 == Gcd(Abs(y[1]), x[2])
    IN  Norm((x[1] \div g1) * (y[1] \div g2), (x[2] \div g2) * (y[2] \div g1))

\* x / y, for y # 0 (Python raises ZeroDivisionError at y = 0)
RDiv(x, y) == RMul(x, Norm(y[2], y[1]))

\* x ** t for an integer t >= 0
RECURSIVE RPow(_, _)
RPow(x, t) == IF t = 0 THEN R(1) ELSE RMul(x, RPow(x, t - 1))

\* a/b < c/d for b, d > 0, by comparing the integer parts and then the
\* reciprocals of the fractional parts (no cross product is formed)
RECURSIVE Less(_, _, _, _)
Less(a, b, c, d) ==
    IF a \div b # c \div d THEN a \div b < c \div d
    ELSE IF c % d = 0 THEN FALSE
    ELSE IF a % b = 0 THEN TRUE
    ELSE Less(d, c % d, b, a % b)

\* x < y
RLt(x, y) == Less(x[1], x[2], y[1], y[2])

\* x <= y
RLe(x, y) == ~RLt(y, x)

\* sum(xs): Python's sum starts from 0 and adds the items from left to right
RECURSIVE RSum(_)
RSum(xs) ==
    IF xs = <<>> THEN R(0)
    ELSE RAdd(RSum(SubSeq(xs, 1, Len(xs) - 1)), xs[Len(xs)])

\* int(x): truncation toward zero
int(x) == IF x[1] >= 0 THEN x[1] \div x[2] ELSE -((-x[1]) \div x[2])

\* The digits format(x, ".<d>f") prints: x * 10^d rounded to the nearest integer,
\* ties to even (values here are non-negative).
Fmt(x, d) ==
    LET s == RMul(x, RPow(R(10), d))
        q == s[1] \div s[2]
        twice == 2 * (s[1] % s[2])
    IN  IF twice < s[2] THEN q
        ELSE IF twice > s[2] THEN q + 1
        ELSE IF q % 2 = 0 THEN q ELSE q + 1

-----------------------------------------------------------------------------
(* The script's constants and pure computations. *)

face_value == 100

current_ytm == 5

get_colors ==
    << "#1f77b4", "#ff7f0e", "#2ca02c", "#d62728", "#9467bd",
       "#8c564b", "#e377c2", "#7f7f7f", "#bcbd22", "#17becf" >>

periods_per_year(frequency) == IF frequency = "Annual" THEN 1 ELSE 2

n_periods(m, frequency) == int(RMul(m, R(periods_per_year(frequency))))

\* Mutant of coupon_payment: the annual coupon is not divided by periods_per_year.
coupon_payment_NotPerPeriod(rate, frequency) ==
    RMul(R(face_value), RDiv(rate, R(100)))

coupon_payment(rate, frequency) ==
    RDiv(RMul(R(face_value), RDiv(rate, R(100))), R(periods_per_year(frequency)))

\* (1 + yield_rate / periods_per_year) ** t
Discount(yield_rate, ppy, t) == RPow(RAdd(R(1), RDiv(yield_rate, R(ppy))), t)

\* [coupon_payment / (1 + yield_rate / periods_per_year) ** t for t in range(1, n_periods + 1)]
CouponPVs(yield_rate, cp, ppy, n) ==
    [t \in 1..n |-> RDiv(cp, Discount(yield_rate, ppy, t))]

\* Mutant of calculate_bond_price: range(1, n_periods) drops the last coupon.
calculate_bond_price_SkipLastCoupon(yield_rate, cp, ppy, n) ==
    RAdd(RSum(CouponPVs(yield_rate, cp, ppy, n - 1)),
         RDiv(R(face_value), Discount(yield_rate, ppy, n)))

\* Mutant of calculate_bond_price: the redemption is compounded, not discounted.
calculate_bond_price_Compounded(yield_rate, cp, ppy, n) ==
    RAdd(RSum(CouponPVs(yield_rate, cp, ppy, n)),
         RMul(R(face_value), Discount(yield_rate, ppy, n)))

calculate_bond_price(yield_rate, cp, ppy, n) ==
    RAdd(RSum(CouponPVs(yield_rate, cp, ppy, n)),
         RDiv(R(face_value), Discount(yield_rate, ppy, n)))

\* Mutant of pv_payments: the redemption is appended undiscounted.
pv_payments_UndiscountedRedemption(yield_rate, cp, ppy, n) ==
    Append(CouponPVs(yield_rate, cp, ppy, n), R(face_value))

\* pv_payments of calculate_duration, after the append
pv_payments(yield_rate, cp, ppy, n) ==
    Append(CouponPVs(yield_rate, cp, ppy, n),
           RDiv(R(face_value), Discount(yield_rate, ppy, n)))

\* weighted_times: enumerate(pv_payments, 1) numbers the items 1, 2, ..., n + 1
weighted_times(pv, ppy) ==
    [t \in 1..Len(pv) |-> RDiv(RMul(R(t), pv[t]), R(ppy))]

calculate_duration(yield_rate, cp, ppy, n) ==
    LET pv == pv_payments(yield_rate, cp, ppy, n)
    IN  RDiv(RSum(weighted_times(pv, ppy)), RSum(pv))

\* Mutant of linspace: endpoint=False, the step is (stop - start) / num.
linspace_NoEndpoint(start, stop, num) ==
    LET step == RDiv(RSub(stop, start), R(num))
    IN  [i \in 1..num |-> RAdd(start, RMul(R(i - 1), step))]

\* np.linspace(start, stop, num), num >= 2: start + i * step, the last item set to stop
linspace(start, stop, num) ==
    LET step == RDiv(RSub(stop, start), R(num - 1))
    IN  [i \in 1..num |->
            IF i = num THEN stop ELSE RAdd(start, RMul(R(i - 1), step))]

\* for ytm in yields: prices.append(calculate_bond_price(ytm))
RECURSIVE SweepPrices(_, _, _, _)
SweepPrices(ys, cp, ppy, n) ==
    IF ys = <<>> THEN <<>>
    ELSE Append(SweepPrices(SubSeq(ys, 1, Len(ys) - 1), cp, ppy, n),
                calculate_bond_price(ys[Len(ys)], cp, ppy, n))

\* yields = np.linspace(min_ytm/100, max_ytm/100, num_points)
SweepYields(range, num) ==
    linspace(RDiv(range[1], R(100)), RDiv(range[2], R(100)), num)

\* f"{coupon_rate:.2f}% - {coupon_frequency} - {maturity:.1f}y", as the three
\* fields it prints
curve_label(rate, frequency, m) == <<Fmt(rate, 2), frequency, Fmt(m, 1)>>

-----------------------------------------------------------------------------
(* The values the widgets are driven through. *)

\* Coupon Rate slider: 0.0 .. 10.0 in steps of 0.25
CouponRates == {R(0), R(5), R(10)}

\* Coupon Frequency selectbox
Frequencies == {"Annual", "Semi-Annual"}

\* Maturity slider: 0.5 .. 30.0 in steps of 0.5
Maturities == {Norm(h, 2) : h \in 1..MaxHalfYears}

\* YTM Range slider: 0.1 .. 20.0 in steps of 0.1; both handles may meet
YtmRanges ==
    {<<R(5), R(20)>>, <<R(10), R(20)>>, <<R(5), R(5)>>, <<R(10), R(10)>>,
     <<R(20), R(20)>>}

\* Chart Resolution select_slider, as the number of points it stands for
PointCounts == 2..MaxPoints

\* The keys uuid4().hex[:5] can return
Keys == 0..(NumKeys - 1)

\* The widget values an editing session moves between
SessionCouponRates == {R(5), R(10)}
SessionMaturities == {Norm(1, 2), R(1)}
SessionYtmRanges == {<<R(10), R(20)>>}

EmptyDict == [k \in {} |-> k]

-----------------------------------------------------------------------------
(* One run of the script. *)

\* Lines 212-283: what a run computes from the widget values.
Outputs(rate, frequency, m, range, num) ==
    LET ppy == periods_per_year(frequency)
        n   == n_periods(m, frequency)
        cp  == coupon_payment(rate, frequency)
        ys  == SweepYields(range, num)
    IN  /\ yields' = ys
        /\ prices' = SweepPrices(ys, cp, ppy, n)
        /\ current_price' = calculate_bond_price(RDiv(R(current_ytm), R(100)), cp, ppy, n)
        /\ duration' = calculate_duration(RDiv(R(current_ytm), R(100)), cp, ppy, n)

\* The user moves the Coupon Rate slider: a run with no button pressed.
SetCouponRate(choices) ==
    \E v \in choices \ {coupon_rate} :
        /\ coupon_rate' = v
        /\ Outputs(v, coupon_frequency, maturity, ytm_range, num_points)
        /\ UNCHANGED <<coupon_frequency, maturity, ytm_range, num_points,
                       curves, curve_colors, added>>

\* The user picks the other Coupon Frequency.
SetFrequency ==
    \E v \in Frequencies \ {coupon_frequency} :
        /\ coupon_frequency' = v
        /\ Outputs(coupon_rate, v, maturity, ytm_range, num_points)
        /\ UNCHANGED <<coupon_rate, maturity, ytm_range, num_points,
                       curves, curve_colors, added>>

\* The user moves the Maturity slider.
SetMaturity(choices) ==
    \E v \in choices \ {maturity} :
        /\ maturity' = v
        /\ Outputs(coupon_rate, coupon_frequency, v, ytm_range, num_points)
        /\ UNCHANGED <<coupon_rate, coupon_frequency, ytm_range, num_points,
                       curves, curve_colors, added>>

\* The user moves a handle of the YTM Range slider.
SetYtmRange ==
    \E v \in YtmRanges \ {ytm_range} :
        /\ ytm_range' = v
        /\ Outputs(coupon_rate, coupon_frequency, maturity, v, num_points)
        /\ UNCHANGED <<coupon_rate, coupon_frequency, maturity, num_points,
                       curves, curve_colors, added>>

\* The user moves the Chart Resolution slider.
SetResolution ==
    \E v \in PointCounts \ {num_points} :
        /\ num_points' = v
        /\ Outputs(coupon_rate, coupon_frequency, maturity, ytm_range, v)
        /\ UNCHANGED <<coupon_rate, coupon_frequency, maturity, ytm_range,
                       curves, curve_colors, added>>

\* d[key] = value on a Python dict
DictSet(d, key, value) ==
    [k \in DOMAIN d \cup {key} |-> IF k = key THEN value ELSE d[k]]

\* The user clicks "Add to Chart": the run stores the swept curve under a new
\* key and gives it the palette colour numbered by the colours already stored.
AddCurve ==
    /\ Len(added) < MaxAdds
    /\ Outputs(coupon_rate, coupon_frequency, maturity, ytm_range, num_points)
    /\ \E curve_key \in Keys :
        LET colors == get_colors
            color_idx == Cardinality(DOMAIN curve_colors) % Len(colors)
        IN  /\ curves' = DictSet(curves, curve_key,
                            << [i \in 1..Len(yields') |-> RMul(yields'[i], R(100))],
                               prices',
                               curve_label(coupon_rate, coupon_frequency, maturity) >>)
            /\ curve_colors' = DictSet(curve_colors, curve_key, colors[color_idx + 1])
            /\ added' = Append(added, curve_key)
    /\ UNCHANGED <<coupon_rate, coupon_frequency, maturity, ytm_range, num_points>>

\* The user clicks "Reset Chart": the run empties both dictionaries.
ResetChart ==
    /\ curves' = EmptyDict
    /\ curve_colors' = EmptyDict
    /\ added' = <<>>
    /\ Outputs(coupon_rate, coupon_frequency, maturity, ytm_range, num_points)
    /\ UNCHANGED <<coupon_rate, coupon_frequency, maturity, ytm_range, num_points>>

\* The first run of a session: session_state is created empty (lines 120-123)
\* and the outputs are those of the widget values.  The handles of the YTM
\* Range slider start apart; they meet only when the user moves one.
FirstRun(rates, mats, ranges, counts) ==
    /\ coupon_rate \in rates
    /\ coupon_frequency \in Frequencies
    /\ maturity \in mats
    /\ ytm_range \in ranges
    /\ num_points \in counts
    /\ curves = EmptyDict
    /\ curve_colors = EmptyDict
    /\ added = <<>>
    /\ LET ppy == periods_per_year(coupon_frequency)
           n   == n_periods(maturity, coupon_frequency)
           cp  == coupon_payment(coupon_rate, coupon_frequency)
           ys  == SweepYields(ytm_range, num_points)
       IN  /\ yields = ys
           /\ prices = SweepPrices(ys, cp, ppy, n)
           /\ current_price = calculate_bond_price(RDiv(R(current_ytm), R(100)), cp, ppy, n)
           /\ duration = calculate_duration(RDiv(R(current_ytm), R(100)), cp, ppy, n)

\* An editing session: the bond's terms change, curves are added and reset.
Init == FirstRun(SessionCouponRates, SessionMaturities, SessionYtmRanges, {2})

Next ==
    \/ SetCouponRate(SessionCouponRates)
    \/ SetFrequency
    \/ SetMaturity(SessionMaturities)
    \/ AddCurve
    \/ ResetChart

Spec == Init /\ [][Next]_vars

\* The calculator alone: every widget moves over its whole grid, no curve is saved.
InitCalc ==
    FirstRun(CouponRates, Maturities, {r \in YtmRanges : RLt(r[1], r[2])}, PointCounts)

NextCalc ==
    \/ SetCouponRate(CouponRates)
    \/ SetFrequency
    \/ SetMaturity(Maturities)
    \/ SetYtmRange
    \/ SetResolution

SpecCalc == InitCalc /\ [][NextCalc]_vars

-----------------------------------------------------------------------------
(* The terms of the bond on screen, and the yields the properties are      *)
(* evaluated at.                                                           *)

Ppy == periods_per_year(coupon_frequency)
NPeriods == n_periods(maturity, coupon_frequency)
Coupon == coupon_payment(coupon_rate, coupon_frequency)
ReferenceYield == RDiv(R(current_ytm), R(100))
ParYield == RDiv(coupon_rate, R(100))

Price(y) == calculate_bond_price(y, Coupon, Ppy, NPeriods)
Duration(y) == calculate_duration(y, Coupon, Ppy, NPeriods)

\* Annual yields below, at and above zero; -3/2 lies in the domain
\* y > -periods_per_year of a semi-annual bond only.
TestYields == {<<-3, 2>>, <<-1, 2>>, R(0), <<1, 20>>, <<1, 10>>, <<1, 5>>}

DomainYields ==
    {y \in TestYields \cup {ParYield} \cup {yields[i] : i \in 1..Len(yields)} :
        RLt(R(-Ppy), y)}

\* The value, k periods before maturity and just after that date's coupon, of
\* what is still to be paid: the redemption at maturity, and one period
\* earlier the next coupon plus the later value, discounted one period.
RECURSIVE BackwardValue(_, _)
BackwardValue(y, k) ==
    IF k = 0 THEN R(face_value)
    ELSE RDiv(RAdd(BackwardValue(y, k - 1), Coupon),
              RAdd(R(1), RDiv(y, R(Ppy))))

\* Macaulay duration in years: each period's total cash flow (the coupon, plus
\* the face value in the final period n) weighted by t / periods_per_year.
MacaulayDuration(y) ==
    LET cash(t) == IF t = NPeriods THEN RAdd(Coupon, R(face_value)) ELSE Coupon
        pv(t)   == RDiv(cash(t), Discount(y, Ppy, t))
    IN  RDiv(RSum([t \in 1..NPeriods |-> RMul(RDiv(R(t), R(Ppy)), pv(t))]),
             Price(y))

-----------------------------------------------------------------------------
(* C1 *)

\* C1: calculate_duration weights the face-value redemption by the final
\* period n, i.e. it is the Macaulay duration
\* (sum over t = 1..n of t/periods_per_year * PV of the total cash flow at t)
\* divided by the sum of all present values.
C1_DurationWeightsRedemptionAtN ==
    /\ duration = MacaulayDuration(ReferenceYield)
    /\ \A y \in DomainYields : Duration(y) = MacaulayDuration(y)

-----------------------------------------------------------------------------
(* C2 *)

\* C2: for a coupon-bearing bond and every yield > -periods_per_year the
\* duration is at most the maturity in years, with equality only when n <= 1.
C2_DurationAtMostMaturity ==
    RLt(R(0), coupon_rate) =>
        \A y \in DomainYields \cup {ReferenceYield} :
            /\ RLe(Duration(y), maturity)
            /\ Duration(y) = maturity => NPeriods <= 1

-----------------------------------------------------------------------------
(* C3 *)

\* C3: the price is sum_{t=1..n} coupon_payment/(1+r)^t + face_value/(1+r)^n
\* with n = maturity * periods_per_year truncated toward zero,
\* coupon_payment = face_value * coupon_rate/100 / periods_per_year and
\* r = y / periods_per_year (stated as the backward recurrence of that sum);
\* at n = 0 the price is face_value for every yield, and at y = 0 it is
\* n * coupon_payment + face_value.
C3_PriceFormula ==
    /\ NPeriods >= 0
    /\ RLe(R(NPeriods), RMul(maturity, R(Ppy)))
    /\ RLt(RMul(maturity, R(Ppy)), R(NPeriods + 1))
    /\ RMul(RMul(Coupon, R(Ppy)), R(100)) = RMul(R(face_value), coupon_rate)
    /\ \A y \in DomainYields \cup {ReferenceYield} :
        /\ Price(y) = BackwardValue(y, NPeriods)
        /\ NPeriods = 0 => Price(y) = R(face_value)
    /\ Price(R(0)) = RAdd(RMul(R(NPeriods), Coupon), R(face_value))
    /\ current_price = BackwardValue(ReferenceYield, NPeriods)

\* A coupon-bearing bond of at least two periods has been priced at the
\* reference yield, below its undiscounted cash flows.
C3_Witness ==
    /\ NPeriods >= 2
    /\ RLt(R(0), coupon_rate)
    /\ RLt(current_price, RAdd(RMul(R(NPeriods), Coupon), R(face_value)))

-----------------------------------------------------------------------------
(* C4 *)

\* C4: for the same terms and yield, the sum of the present values that
\* calculate_duration divides by equals calculate_bond_price(yield).
C4_PVSumIsPrice ==
    /\ RSum(pv_payments(ReferenceYield, Coupon, Ppy, NPeriods)) = current_price
    /\ \A y \in DomainYields :
        RSum(pv_payments(y, Coupon, Ppy, NPeriods)) = Price(y)

\* The duration of a coupon-bearing bond of several periods has been computed
\* over n coupons and the redemption.
C4_Witness ==
    /\ NPeriods >= 2
    /\ RLt(R(0), coupon_rate)
    /\ Len(pv_payments(ReferenceYield, Coupon, Ppy, NPeriods)) = NPeriods + 1
    /\ duration = Duration(ReferenceYield)

-----------------------------------------------------------------------------
(* C5 *)

\* C5 as stated: for any terms the inputs allow, the price is strictly
\* decreasing in the yield over y > -periods_per_year.
C5_StrictlyDecreasingForAllTerms ==
    \A y1, y2 \in DomainYields : RLt(y1, y2) => RLt(Price(y2), Price(y1))

\* C5, amended: the price is strictly decreasing in the yield over
\* y > -periods_per_year when the bond has at least one period (n >= 1); with
\* n = 0 it is face_value at every yield.
C5_StrictlyDecreasingWhenPeriods ==
    \A y1, y2 \in DomainYields :
        RLt(y1, y2) =>
            IF NPeriods >= 1 THEN RLt(Price(y2), Price(y1))
            ELSE Price(y1) = Price(y2) /\ Price(y1) = R(face_value)

\* A zero-coupon bond of at least one period is priced lower at 5% than at 0%.
C5_Witness ==
    /\ NPeriods >= 1
    /\ coupon_rate = R(0)
    /\ RLt(R(0), ReferenceYield)
    /\ RLt(current_price, Price(R(0)))

-----------------------------------------------------------------------------
(* C6 *)

\* C6: when the annual yield equals coupon_rate/100 the price equals
\* face_value, for every period count and both coupon frequencies.
C6_ParProperty == Price(ParYield) = R(face_value)

\* A semi-annual 5% bond of at least two periods: the reference yield is its
\* par yield and the price shown is the face value.
C6_Witness ==
    /\ coupon_frequency = "Semi-Annual"
    /\ NPeriods >= 2
    /\ ParYield = ReferenceYield
    /\ current_price = R(face_value)

-----------------------------------------------------------------------------
(* C7 *)

\* C7: the sweep produces exactly num_points (yield, price) pairs; the yields
\* are evenly spaced from min_ytm to max_ytm, both endpoints included, in
\* non-decreasing order, and the i-th price is the price at the i-th yield.
C7_Sweep ==
    LET lo   == RDiv(ytm_range[1], R(100))
        hi   == RDiv(ytm_range[2], R(100))
        step == RDiv(RSub(hi, lo), R(num_points - 1))
    IN  /\ Len(yields) = num_points
        /\ Len(prices) = num_points
        /\ yields[1] = lo
        /\ yields[num_points] = hi
        /\ \A i \in 1..(num_points - 1) :
            /\ RSub(yields[i + 1], yields[i]) = step
            /\ RLe(yields[i], yields[i + 1])
        /\ \A i \in 1..num_points : prices[i] = Price(yields[i])

\* A sweep of at least three points over a proper range, for a bond whose
\* price depends on the yield.
C7_Witness ==
    /\ num_points >= 3
    /\ RLt(ytm_range[1], ytm_range[2])
    /\ NPeriods >= 1
    /\ Len(prices) = num_points
    /\ RLt(prices[num_points], prices[1])

-----------------------------------------------------------------------------
(* C8 *)

\* C8: invalid inputs are rejected rather than computed on: a run with
\* num_points < 2 or min_ytm >= max_ytm, or with a non-positive face value or
\* maturity, yields no curve and no price.
C8_InvalidInputsRejected ==
    (\/ num_points < 2
     \/ RLe(ytm_range[2], ytm_range[1])
     \/ face_value <= 0
     \/ RLe(maturity, R(0)))
        => yields = <<>> /\ prices = <<>>

-----------------------------------------------------------------------------
(* C9 *)

\* C9: a saved curve is immutable once stored: every run other than a Reset
\* (which removes all curves) leaves each stored entry and its colour present
\* and unchanged, for every key the identifier generator can return; so each
\* Add increases the number of saved curves by exactly one.
C9_SavedCurvesImmutable ==
    [][ \/ curves' = EmptyDict /\ curve_colors' = EmptyDict /\ added' = <<>>
        \/ /\ \A k \in DOMAIN curves :
                /\ k \in DOMAIN curves'
                /\ curves'[k] = curves[k]
                /\ k \in DOMAIN curve_colors'
                /\ curve_colors'[k] = curve_colors[k]
           /\ Len(added') = Len(added) + 1 =>
                Cardinality(DOMAIN curves') = Cardinality(DOMAIN curves) + 1
      ]_vars

-----------------------------------------------------------------------------
(* C10 *)

\* The position of the Add run whose entry key now holds.
LastAdd(key) == CHOOSE k \in 1..Len(added) :
    /\ added[k] = key
    /\ \A j \in (k + 1)..Len(added) : added[j] # key

\* C10: the k-th curve added since the last Reset has colour
\* palette[(k-1) mod 10], so curves added within 10 consecutive Adds have
\* pairwise distinct colours, and every key in curves has an entry in
\* curve_colors.
C10_RoundRobinColours ==
    /\ DOMAIN curves \subseteq DOMAIN curve_colors
    /\ \A key \in DOMAIN curves :
        curve_colors[key] = get_colors[((LastAdd(key) - 1) % Len(get_colors)) + 1]
    /\ \A k1, k2 \in DOMAIN curves :
        (k1 # k2 /\ Abs(LastAdd(k1) - LastAdd(k2)) < Len(get_colors))
            => curve_colors[k1] # curve_colors[k2]

====
